---------------------------- MODULE Spec2Model ----------------------------
(***************************************************************************)
(* The old generation of the parallel collector (PSOldGen): sizing         *)
(* (resize / expand / shrink), the ordered publication of a new size       *)
(* (post_resize) and the cooperative allocation pretouch.                  *)
(*                                                                         *)
(* Sizes are bytes and addresses are byte addresses, both kept in a        *)
(* machine word of cfg.word_bits bits (size_t / HeapWord* arithmetic wraps *)
(* modulo 2^word_bits).  The page size, the alignment and the reserved     *)
(* size are scaled down; HeapWordSize is the real one.                     *)
(***************************************************************************)
EXTENDS Integers, FiniteSets, Sequences, TLC

(***************************************************************************)
(* Bounds of the model.                                                    *)
(***************************************************************************)
\* width of size_t and of an address, in bits
WordBits == 8
\* the reserved space holds at most this many alignment units
MaxUnits == 3
\* the largest ordinary allocation request, in words
MaxAllocWords == 3
\* a scanned space holds at most this many objects
MaxObjects == 4
\* the largest object of a scanned space, in words
MaxObjectWords == 3
\* the reserved space of a generation with 4K pages holds this many pages
MaxPretouchPages == 6

(***************************************************************************)
(* Platform and flag values.                                               *)
(***************************************************************************)
HeapWordSize == 8
vm_page_size == 2 * HeapWordSize
GenAlignment == vm_page_size
numa_get_groups_num == 2

VMThread == "vm"
Workers == {"w1", "w2"}
Threads == {VMThread} \cup Workers
NoThread == "none"
NULL == 0
\* the request sizes of allocate(word_size), in words
AllocWords == {1, MaxAllocWords}

VARIABLES
  cfg,                   \* the values fixed at construction (flags, bounds, reserved space)
  committed_high_addr,   \* virtual_space()->high()
  object_space_end,      \* object_space()->end(), read by allocators
  object_space_top,      \* object_space()->top(), the allocation frontier
  start_array_covered,   \* region last given to start_array()->set_covered_region
  card_table_covered,    \* region last given to card_table()->resize_covered_region
  alloc_pretouch_next,   \* _alloc_pretouch_next
  ExpandHeap_lock,       \* owner of ExpandHeap_lock, or NoThread
  pc,                    \* per thread: the statement it is at
  loc,                   \* per thread: its locals and arguments
  objects,               \* a scan pass: the sizes, in words, of the objects in [bottom, top)
  iterated               \* a scan pass: per block iterated, the objects given to cl->do_object

vars == <<cfg, committed_high_addr, object_space_end, object_space_top,
          start_array_covered, card_table_covered, alloc_pretouch_next,
          ExpandHeap_lock, pc, loc, objects, iterated>>

\* the state of a scan pass over the blocks; no pass runs while the generation
\* is resized or allocated in
scan == <<objects, iterated>>

(***************************************************************************)
(* Word arithmetic and the helpers of utilities/align.hpp.                 *)
(***************************************************************************)
SizeMod == 2 ^ cfg.word_bits

MIN2(a, b) == IF a < b THEN a ELSE b
MAX2(a, b) == IF a > b THEN a ELSE b

align_down(x, a) == x - (x % a)
align_up(x, a) == align_down((x + a - 1) % SizeMod, a)
is_aligned(x, a) == x % a = 0
clamp(v, lo, hi) == MIN2(MAX2(v, lo), hi)

\* HeapWord* + n and the distance between two HeapWord*, in words
ptr_add(p, n) == (p + n * HeapWordSize) % SizeMod
pointer_delta(a, b) == (a - b) \div HeapWordSize

\* MemRegion(start, end) keeps start and the whole number of words up to end;
\* its end() is start plus those words, so a high address that is not a
\* whole number of words above start gives the last whole word below it
MemRegion(s, e) == [start |-> s, end |-> ptr_add(s, pointer_delta(e, s))]

(***************************************************************************)
(* The values read through accessors.                                      *)
(***************************************************************************)
alignment == cfg.alignment
min_gen_size == cfg.min_gen_size
max_gen_size == cfg.max_gen_size
low_boundary == cfg.low_boundary
high_boundary == cfg.low_boundary + cfg.reserved_size
bottom == low_boundary
committed_size == committed_high_addr - low_boundary
uncommitted_size == high_boundary - committed_high_addr
used_in_bytes == object_space_top - bottom
capacity_in_bytes == object_space_end - bottom
is_VM_thread(t) == t = VMThread

\* PSOldGen::initialize_allocation_pretouch
alloc_pretouch_stride_words == cfg.page_size \div HeapWordSize
alloc_pretouch_limit_words == alloc_pretouch_stride_words * cfg.ParallelGCThreads

(***************************************************************************)
(* Construction.                                                           *)
(***************************************************************************)
\* The flag and size combinations a generation is constructed with.  The
\* reserved space is aligned and not larger than max_gen_size (line 60);
\* min_gen_size and max_gen_size are whole words but need not be aligned.
\* The least expansion is one alignment unit (from MinHeapDeltaBytes), or
\* one per NUMA group with UseNUMA.
Configurations ==
  { [word_bits |-> WordBits,
     alignment |-> GenAlignment,
     page_size |-> vm_page_size,
     ParallelGCThreads |-> Cardinality(Workers),
     low_boundary |-> GenAlignment,
     reserved_size |-> MaxUnits * GenAlignment,
     min_gen_size |-> sz[1],
     max_gen_size |-> MaxUnits * GenAlignment + sz[2],
     MinHeapDeltaBytes |-> HeapWordSize,
     UseNUMA |-> numa,
     AlwaysPreTouch |-> apt] :
    sz \in {<<GenAlignment, 0>>, <<GenAlignment + HeapWordSize, HeapWordSize>>},
    numa \in BOOLEAN,
    apt \in BOOLEAN }

\* the initial sizes: aligned, within the bounds and the reserved space
InitialSizes(c) ==
  { k * c.alignment : k \in 1..(c.reserved_size \div c.alignment) }
    \cap c.min_gen_size..c.max_gen_size

NoLocals ==
  [op |-> "none", word_size |-> 0, alloc |-> NULL,
   bytes |-> 0, new_size |-> 0, current_size |-> 0,
   size_before |-> 0, overflowed |-> FALSE,
   aligned_bytes |-> 0, aligned_expand_bytes |-> 0, attempt |-> "none",
   expand_by_bytes |-> 0, success |-> FALSE, rechecked |-> FALSE,
   new_memregion |-> MemRegion(NULL, NULL), next_pretouch |-> NULL,
   touch |-> NULL, alloc_end |-> NULL, old_touch |-> NULL, next_touch |-> NULL,
   saved |-> <<>>]

\* PSOldGen::PSOldGen and PSOldGen::initialize
Init ==
  /\ cfg \in Configurations
  /\ \E initial_size \in InitialSizes(cfg) :
       committed_high_addr = cfg.low_boundary + initial_size
  /\ object_space_end = committed_high_addr
  /\ object_space_top = cfg.low_boundary
  /\ start_array_covered = MemRegion(cfg.low_boundary, committed_high_addr)
  /\ card_table_covered = MemRegion(cfg.low_boundary, committed_high_addr)
  /\ alloc_pretouch_next = NULL
  /\ ExpandHeap_lock = NoThread
  /\ pc = [t \in Threads |-> "idle"]
  /\ loc = [t \in Threads |-> NoLocals]
  /\ objects = <<>>
  /\ iterated = <<>>

(***************************************************************************)
(* Control.                                                                *)
(***************************************************************************)
Goto(t, p) == pc' = [pc EXCEPT ![t] = p]
SetLocals(t, r) == loc' = [loc EXCEPT ![t] = r]
Return(t) == Goto(t, "idle") /\ SetLocals(t, NoLocals)

\* The VM thread runs its operations at a safepoint with the worker gang at
\* its disposal (lines 442-443, 454-457): it starts one only while no worker
\* is inside an operation, and a worker starts one only while the VM thread
\* is between operations.
CanStart(t) ==
  /\ pc[t] = "idle"
  /\ IF is_VM_thread(t) THEN \A w \in Workers : pc[w] = "idle"
                        ELSE pc[VMThread] = "idle"

generation == <<committed_high_addr, object_space_end, object_space_top,
                start_array_covered, card_table_covered, alloc_pretouch_next>>

(***************************************************************************)
(* Allocation by a GC worker (the allocation-space collaborator's bump of  *)
(* top, and the generation's allocate, which pretouches after a successful *)
(* bump and asks for an expansion after a failed one).                     *)
(***************************************************************************)
Allocate(t, word_size) ==
  /\ t \in Workers
  /\ CanStart(t)
  /\ IF word_size <= pointer_delta(object_space_end, object_space_top)
     THEN /\ object_space_top' = ptr_add(object_space_top, word_size)
          /\ Goto(t, "pretouch_during_allocation")
          /\ SetLocals(t, [NoLocals EXCEPT !.op = "allocate",
                                           !.alloc = object_space_top,
                                           !.word_size = word_size])
     ELSE /\ object_space_top' = object_space_top
          /\ Goto(t, "expand_for_allocate")
          /\ SetLocals(t, [NoLocals EXCEPT !.op = "expand_for_allocate",
                                           !.word_size = word_size])
  /\ UNCHANGED <<cfg, scan, committed_high_addr, object_space_end, start_array_covered,
                 card_table_covered, alloc_pretouch_next, ExpandHeap_lock>>

(***************************************************************************)
(* PSOldGen::pretouch_during_allocation(alloc, alloc_size), lines 204-259. *)
(***************************************************************************)
\* lines 209-213: the size test and the load of _alloc_pretouch_next
PretouchLoadNext(t) ==
  /\ pc[t] = "pretouch_during_allocation"
  /\ IF alloc_pretouch_stride_words <= loc[t].word_size
     THEN Return(t)
     ELSE /\ Goto(t, "pretouch_load_end")
          /\ SetLocals(t, [loc[t] EXCEPT !.touch = alloc_pretouch_next])
  /\ UNCHANGED <<cfg, scan, generation, ExpandHeap_lock>>

\* the call without the test for the last page
pretouch_plan_without_last_page(alloc, alloc_size, loaded_touch, alloc_end) ==
  LET stride_align == alloc_pretouch_stride_words * HeapWordSize
      new_alloc == ptr_add(alloc, alloc_size)
      claim(touch) ==
        [step |-> "pretouch_cmpxchg", touch |-> touch,
         next_touch |->
           IF pointer_delta(alloc_end, touch) < alloc_pretouch_stride_words
           THEN alloc_end
           ELSE ptr_add(touch, alloc_pretouch_stride_words)]
  IN IF loaded_touch >= alloc_end
     THEN [step |-> "return", touch |-> loaded_touch, next_touch |-> loaded_touch]
     ELSE IF new_alloc > loaded_touch
     THEN claim(align_up(new_alloc, stride_align))
     ELSE IF pointer_delta(loaded_touch, new_alloc) > alloc_pretouch_limit_words
     THEN [step |-> "return", touch |-> loaded_touch, next_touch |-> loaded_touch]
     ELSE claim(loaded_touch)

\* the call returning whenever the chunk lies behind the pointer
pretouch_plan_leaving_behind(alloc, alloc_size, loaded_touch, alloc_end) ==
  LET stride_align == alloc_pretouch_stride_words * HeapWordSize
      new_alloc == ptr_add(alloc, alloc_size)
      last_page == align_down(alloc_end - HeapWordSize, stride_align)
      touch == align_up(new_alloc, stride_align)
  IN IF loaded_touch >= alloc_end \/ new_alloc <= loaded_touch
     THEN [step |-> "return", touch |-> loaded_touch, next_touch |-> loaded_touch]
     ELSE IF new_alloc > last_page
     THEN [step |-> "pretouch_cmpxchg_end", touch |-> loaded_touch,
           next_touch |-> alloc_end]
     ELSE [step |-> "pretouch_cmpxchg", touch |-> touch,
           next_touch |->
             IF pointer_delta(alloc_end, touch) < alloc_pretouch_stride_words
             THEN alloc_end
             ELSE ptr_add(touch, alloc_pretouch_stride_words)]

\* lines 219-246 as a function of the two loaded values: what the call does
\* next ("return", the cmpxchg of line 227, or the cmpxchg of line 254), the
\* page to touch, and the value to install.
pretouch_plan(alloc, alloc_size, loaded_touch, alloc_end) ==
  LET stride_align == alloc_pretouch_stride_words * HeapWordSize
      new_alloc == ptr_add(alloc, alloc_size)
      last_page == align_down(alloc_end - HeapWordSize, stride_align)
      claim(touch) ==
        [step |-> "pretouch_cmpxchg", touch |-> touch,
         next_touch |->
           IF pointer_delta(alloc_end, touch) < alloc_pretouch_stride_words
           THEN alloc_end
           ELSE ptr_add(touch, alloc_pretouch_stride_words)]
  IN IF loaded_touch >= alloc_end
     THEN [step |-> "return", touch |-> loaded_touch, next_touch |-> loaded_touch]
     ELSE IF new_alloc > loaded_touch
     THEN IF new_alloc > last_page
          THEN [step |-> "pretouch_cmpxchg_end", touch |-> loaded_touch,
                next_touch |-> alloc_end]
          ELSE claim(align_up(new_alloc, stride_align))
     ELSE IF pointer_delta(loaded_touch, new_alloc) > alloc_pretouch_limit_words
     THEN [step |-> "return", touch |-> loaded_touch, next_touch |-> loaded_touch]
     ELSE claim(loaded_touch)

\* lines 214-246: the load of end, then the local computation
PretouchLoadEnd(t) ==
  /\ pc[t] = "pretouch_load_end"
  /\ LET plan == pretouch_plan(loc[t].alloc, loc[t].word_size, loc[t].touch,
                               object_space_end)
     IN IF plan.step = "return"
        THEN Return(t)
        ELSE /\ Goto(t, plan.step)
             /\ SetLocals(t, [loc[t] EXCEPT !.alloc_end = object_space_end,
                                            !.old_touch = loc[t].touch,
                                            !.touch = plan.touch,
                                            !.next_touch = plan.next_touch])
  /\ UNCHANGED <<cfg, scan, generation, ExpandHeap_lock>>

\* a plain store where the cmpxchg belongs
cmpxchg_store(current, old_value, new_value) == new_value

\* Atomic::cmpxchg(&_alloc_pretouch_next, old, new): the value it installs
cmpxchg(current, old_value, new_value) ==
  IF current = old_value THEN new_value ELSE current

\* line 227: already in the last page; try to move the pointer to the end
PretouchCmpxchgEnd(t) ==
  /\ pc[t] = "pretouch_cmpxchg_end"
  /\ alloc_pretouch_next' =
       cmpxchg(alloc_pretouch_next, loc[t].old_touch, loc[t].next_touch)
  /\ Return(t)
  /\ UNCHANGED <<cfg, scan, committed_high_addr, object_space_end, object_space_top,
                 start_array_covered, card_table_covered, ExpandHeap_lock>>

\* the page touched whatever the cmpxchg returned
PretouchCmpxchg_touching_always(t) ==
  /\ pc[t] = "pretouch_cmpxchg"
  /\ alloc_pretouch_next' =
       cmpxchg(alloc_pretouch_next, loc[t].old_touch, loc[t].next_touch)
  /\ Goto(t, "pretouch_touch")
  /\ SetLocals(t, [loc[t] EXCEPT !.success = TRUE])
  /\ UNCHANGED <<cfg, scan, committed_high_addr, object_space_end, object_space_top,
                 start_array_covered, card_table_covered, ExpandHeap_lock>>

\* line 254: claim the page by advancing the pointer
PretouchCmpxchg(t) ==
  /\ pc[t] = "pretouch_cmpxchg"
  /\ alloc_pretouch_next' =
       cmpxchg(alloc_pretouch_next, loc[t].old_touch, loc[t].next_touch)
  /\ IF alloc_pretouch_next = loc[t].old_touch
     THEN Goto(t, "pretouch_touch") /\ SetLocals(t, [loc[t] EXCEPT !.success = TRUE])
     ELSE Return(t)
  /\ UNCHANGED <<cfg, scan, committed_high_addr, object_space_end, object_space_top,
                 start_array_covered, card_table_covered, ExpandHeap_lock>>

\* line 257: the relaxed add of 0 to the word at touch
PretouchTouch(t) ==
  /\ pc[t] = "pretouch_touch"
  /\ Return(t)
  /\ UNCHANGED <<cfg, scan, generation, ExpandHeap_lock>>

(***************************************************************************)
(* The virtual-memory collaborator (PSVirtualSpace).                       *)
(***************************************************************************)
\* expand_by(bytes) can succeed only when that much is still uncommitted; the
\* commit itself may be refused by the operating system.
virtual_space_can_expand_by(bytes) == uncommitted_size >= bytes

\* the high address after expand_by(bytes) succeeded
virtual_space_expand_by(bytes) == committed_high_addr + bytes

\* the high address after shrink_by(bytes): nothing when more than the
\* committed size is asked for, else the top bytes are uncommitted
virtual_space_shrink_by(bytes) ==
  IF committed_size < bytes THEN committed_high_addr
                            ELSE committed_high_addr - bytes

(***************************************************************************)
(* PSOldGen::resize(desired_free_space), lines 386-427.                    *)
(***************************************************************************)
\* the sum without the overflow test
resize_sum_unchecked(used, desired_free_space) ==
  (used + desired_free_space) % SizeMod

\* lines 389-393: used + desired free space, with the overflow test
resize_sum(used, desired_free_space) ==
  LET new_size == (used + desired_free_space) % SizeMod
  IN IF new_size < used THEN max_gen_size ELSE new_size

\* the new size taken from the desired free space alone
resize_new_size_of_free_space(used, desired_free_space) ==
  align_up(clamp(desired_free_space, min_gen_size, max_gen_size), alignment)

\* the new size aligned but not clamped to the generation's bounds
resize_new_size_unclamped(used, desired_free_space) ==
  align_up((used + desired_free_space) % SizeMod, alignment)

\* lines 389-398
resize_new_size(used, desired_free_space) ==
  align_up(clamp(resize_sum(used, desired_free_space), min_gen_size, max_gen_size),
           alignment)

\* lines 387-400: the computation of the new and the current size.  resize
\* is called by the collector's sizing policy, on the VM thread.
Resize(t, desired_free_space) ==
  /\ is_VM_thread(t)
  /\ CanStart(t)
  /\ Goto(t, "resize_compare")
  /\ SetLocals(t, [NoLocals EXCEPT
       !.op = "resize",
       !.size_before = committed_size,
       !.new_size = resize_new_size(used_in_bytes, desired_free_space),
       !.current_size = capacity_in_bytes,
       !.overflowed = (used_in_bytes + desired_free_space >= SizeMod)])
  /\ UNCHANGED <<cfg, scan, generation, ExpandHeap_lock>>

(***************************************************************************)
(* PSOldGen::expand(bytes), lines 282-318.                                 *)
(***************************************************************************)
\* the request rounded to the unit after it, also when already aligned
expand_aligned_bytes_next_unit(bytes) ==
  (align_down(bytes, alignment) + alignment) % SizeMod

\* the request aligned down
expand_aligned_bytes_down(bytes) == align_down(bytes, alignment)

\* lines 287, 295-301
expand_aligned_bytes(bytes) ==
  IF align_up(bytes, alignment) = 0 THEN align_down(bytes, alignment)
                                    ELSE align_up(bytes, alignment)

\* lines 288-294: the least amount worth expanding by
expand_aligned_expand_bytes ==
  IF cfg.UseNUMA
  THEN MAX2(align_up(cfg.MinHeapDeltaBytes, alignment),
            (alignment * numa_get_groups_num) % SizeMod)
  ELSE align_up(cfg.MinHeapDeltaBytes, alignment)

\* lines 286-306: the locals of expand(bytes) when it makes its first call of
\* expand_by: by the least expansion if that is more than the aligned
\* request, else by the aligned request
expand(locals, bytes) ==
  LET aligned_bytes == expand_aligned_bytes(bytes)
      aligned_expand_bytes == expand_aligned_expand_bytes
      first == IF aligned_expand_bytes > aligned_bytes THEN "floor" ELSE "aligned"
  IN [locals EXCEPT
        !.bytes = bytes,
        !.aligned_bytes = aligned_bytes,
        !.aligned_expand_bytes = aligned_expand_bytes,
        !.success = FALSE,
        !.attempt = first,
        !.expand_by_bytes = IF first = "floor" THEN aligned_expand_bytes
                                               ELSE aligned_bytes]

\* expand going from the least expansion straight to expand_to_reserved
expand_retry_skipping_aligned(locals) ==
  IF locals.attempt \in {"floor", "aligned"} /\ uncommitted_size > 0
  THEN [locals EXCEPT !.attempt = "reserved",
                      !.expand_by_bytes = uncommitted_size]
  ELSE [locals EXCEPT !.attempt = "failed", !.expand_by_bytes = 0]

\* expand_to_reserved reporting success when nothing is left to commit
expand_retry_true_at_ceiling(locals) ==
  IF locals.attempt = "floor"
  THEN [locals EXCEPT !.attempt = "aligned",
                      !.expand_by_bytes = locals.aligned_bytes]
  ELSE IF locals.attempt = "aligned" /\ uncommitted_size > 0
  THEN [locals EXCEPT !.attempt = "reserved",
                      !.expand_by_bytes = uncommitted_size]
  ELSE [locals EXCEPT !.attempt = "failed", !.expand_by_bytes = 0,
                      !.success = (locals.attempt = "aligned")]

\* lines 307-312 and 356-367: the locals of expand after an expand_by that
\* failed: the aligned request is tried next, then expand_to_reserved, which
\* tries the uncommitted rest when there is one
expand_retry(locals) ==
  IF locals.attempt = "floor"
  THEN [locals EXCEPT !.attempt = "aligned",
                      !.expand_by_bytes = locals.aligned_bytes]
  ELSE IF locals.attempt = "aligned" /\ uncommitted_size > 0
  THEN [locals EXCEPT !.attempt = "reserved",
                      !.expand_by_bytes = uncommitted_size]
  ELSE [locals EXCEPT !.attempt = "failed", !.expand_by_bytes = 0]

(***************************************************************************)
(* PSOldGen::resize(desired_free_space), continued.                        *)
(***************************************************************************)
\* lines 409-420: nothing to do, or take ExpandHeap_lock and expand or shrink
ResizeCompare(t) ==
  /\ pc[t] = "resize_compare"
  /\ LET new_size == loc[t].new_size
         current_size == loc[t].current_size
         locals == [loc[t] EXCEPT !.overflowed = FALSE]
     IN IF new_size = current_size
        THEN /\ Return(t)
             /\ UNCHANGED ExpandHeap_lock
        ELSE /\ ExpandHeap_lock = NoThread
             /\ ExpandHeap_lock' = t
             /\ IF new_size > current_size
                THEN /\ Goto(t, "expand_by")
                     /\ SetLocals(t, expand(locals, new_size - current_size))
                ELSE /\ Goto(t, "shrink")
                     /\ SetLocals(t, [locals EXCEPT !.bytes = current_size - new_size])
  /\ UNCHANGED <<cfg, scan, generation>>

(***************************************************************************)
(* PSOldGen::expand_for_allocate_impl(word_size), lines 269-280.           *)
(***************************************************************************)
\* expand_for_allocate_impl going on without ExpandHeap_lock
ExpandForAllocate_without_lock(t) ==
  /\ pc[t] = "expand_for_allocate"
  /\ ExpandHeap_lock' = t
  /\ IF loc[t].word_size <= pointer_delta(object_space_end, object_space_top)
     THEN /\ Goto(t, "unlock")
          /\ SetLocals(t, [loc[t] EXCEPT !.success = TRUE, !.rechecked = TRUE])
     ELSE /\ Goto(t, "expand_by")
          /\ SetLocals(t, expand([loc[t] EXCEPT !.size_before = committed_size],
                                 (loc[t].word_size * HeapWordSize) % SizeMod))
  /\ UNCHANGED <<cfg, scan, generation>>

\* expand_for_allocate_impl expanding without the recheck of the free space
ExpandForAllocate_without_recheck(t) ==
  /\ pc[t] = "expand_for_allocate"
  /\ ExpandHeap_lock = NoThread
  /\ ExpandHeap_lock' = t
  /\ Goto(t, "expand_by")
  /\ SetLocals(t, expand([loc[t] EXCEPT !.size_before = committed_size],
                         (loc[t].word_size * HeapWordSize) % SizeMod))
  /\ UNCHANGED <<cfg, scan, generation>>

\* lines 271-279: take ExpandHeap_lock, then recheck the free space
ExpandForAllocate(t) ==
  /\ pc[t] = "expand_for_allocate"
  /\ ExpandHeap_lock = NoThread
  /\ ExpandHeap_lock' = t
  /\ IF loc[t].word_size <= pointer_delta(object_space_end, object_space_top)
     THEN /\ Goto(t, "unlock")
          /\ SetLocals(t, [loc[t] EXCEPT !.success = TRUE, !.rechecked = TRUE])
     ELSE /\ Goto(t, "expand_by")
          /\ SetLocals(t, expand([loc[t] EXCEPT !.size_before = committed_size],
                                 (loc[t].word_size * HeapWordSize) % SizeMod))
  /\ UNCHANGED <<cfg, scan, generation>>

(***************************************************************************)
(* PSOldGen::expand_by(bytes), lines 320-354.                              *)
(***************************************************************************)
\* line 324, virtual_space()->expand_by(bytes) returning true
ExpandByCommitted(t) ==
  /\ pc[t] = "expand_by"
  /\ virtual_space_can_expand_by(loc[t].expand_by_bytes)
  /\ committed_high_addr' = virtual_space_expand_by(loc[t].expand_by_bytes)
  /\ Goto(t, "post_resize")
  /\ UNCHANGED <<cfg, scan, object_space_end, object_space_top, start_array_covered,
                 card_table_covered, alloc_pretouch_next, ExpandHeap_lock, loc>>

\* line 324, virtual_space()->expand_by(bytes) returning false: expand goes
\* on to its next attempt, or returns false after the last one
ExpandByFailed(t) ==
  /\ pc[t] = "expand_by"
  /\ LET locals == expand_retry(loc[t])
     IN /\ SetLocals(t, locals)
        /\ Goto(t, IF locals.attempt = "failed" THEN "unlock" ELSE "expand_by")
  /\ UNCHANGED <<cfg, scan, generation, ExpandHeap_lock>>

\* shrink without its post_resize
Shrink_without_post_resize(t) ==
  /\ pc[t] = "shrink"
  /\ committed_high_addr' =
       IF align_down(loc[t].bytes, alignment) > 0
       THEN committed_high_addr - loc[t].bytes ELSE committed_high_addr
  /\ Goto(t, "unlock")
  /\ SetLocals(t, [loc[t] EXCEPT !.attempt = "shrink"])
  /\ UNCHANGED <<cfg, scan, object_space_end, object_space_top, start_array_covered,
                 card_table_covered, alloc_pretouch_next, ExpandHeap_lock>>

(***************************************************************************)
(* PSOldGen::shrink(bytes), lines 369-384.                                 *)
(***************************************************************************)
Shrink(t) ==
  /\ pc[t] = "shrink"
  /\ LET size == align_down(loc[t].bytes, alignment)
     IN IF size > 0
        THEN /\ committed_high_addr' = virtual_space_shrink_by(loc[t].bytes)
             /\ Goto(t, "post_resize")
             /\ SetLocals(t, [loc[t] EXCEPT !.attempt = "shrink"])
        ELSE /\ committed_high_addr' = committed_high_addr
             /\ Goto(t, "unlock")
             /\ UNCHANGED loc
  /\ UNCHANGED <<cfg, scan, object_space_end, object_space_top, start_array_covered,
                 card_table_covered, alloc_pretouch_next, ExpandHeap_lock>>

(***************************************************************************)
(* PSOldGen::post_resize(), lines 433-471.                                 *)
(***************************************************************************)
\* the new region built up to the reserved high boundary
PostResizeStartArray_to_high_boundary(t) ==
  /\ pc[t] = "post_resize"
  /\ LET new_memregion == MemRegion(low_boundary, high_boundary)
     IN /\ start_array_covered' = new_memregion
        /\ SetLocals(t, [loc[t] EXCEPT !.new_memregion = new_memregion])
  /\ Goto(t, "post_resize_card_table")
  /\ UNCHANGED <<cfg, scan, committed_high_addr, object_space_end, object_space_top,
                 card_table_covered, alloc_pretouch_next, ExpandHeap_lock>>

\* post_resize publishing the new end first, before the covered regions
PostResizeStartArray_after_end(t) ==
  /\ pc[t] = "post_resize"
  /\ LET new_memregion == MemRegion(low_boundary, committed_high_addr)
     IN /\ start_array_covered' = new_memregion
        /\ object_space_end' = new_memregion.end
        /\ SetLocals(t, [loc[t] EXCEPT !.new_memregion = new_memregion])
  /\ Goto(t, "post_resize_card_table")
  /\ UNCHANGED <<cfg, scan, committed_high_addr, object_space_top,
                 card_table_covered, alloc_pretouch_next, ExpandHeap_lock>>

\* lines 435-439: the new region, given to the start array
PostResizeStartArray(t) ==
  /\ pc[t] = "post_resize"
  /\ LET new_memregion == MemRegion(low_boundary, committed_high_addr)
     IN /\ start_array_covered' = new_memregion
        /\ SetLocals(t, [loc[t] EXCEPT !.new_memregion = new_memregion])
  /\ Goto(t, "post_resize_card_table")
  /\ UNCHANGED <<cfg, scan, committed_high_addr, object_space_end, object_space_top,
                 card_table_covered, alloc_pretouch_next, ExpandHeap_lock>>

\* post_resize leaving the card table's covered region as it was
PostResizeCardTable_skipped(t) ==
  /\ pc[t] = "post_resize_card_table"
  /\ Goto(t, "post_resize_initialize")
  /\ UNCHANGED <<cfg, scan, generation, ExpandHeap_lock, loc>>

\* line 440: the new region, given to the card table
PostResizeCardTable(t) ==
  /\ pc[t] = "post_resize_card_table"
  /\ card_table_covered' = loc[t].new_memregion
  /\ Goto(t, "post_resize_initialize")
  /\ UNCHANGED <<cfg, scan, committed_high_addr, object_space_end, object_space_top,
                 start_array_covered, alloc_pretouch_next, ExpandHeap_lock, loc>>

\* post_resize returns to shrink, or to expand_by and with true to expand,
\* and these to the caller that took the lock
post_resize_return(t) ==
  IF loc[t].op = "expand_shrink" /\ loc[t].attempt # "shrink"
  THEN "expand_shrink_shrink" ELSE "unlock"

\* the gang taken on every thread
post_resize_has_workers_always(t) == TRUE

\* lines 442-443: workers is the heap's gang on the VM thread, else NULL
post_resize_has_workers(t) == is_VM_thread(t)

\* lines 442-452: object_space()->initialize publishes the new end
PostResizeInitialize(t) ==
  /\ pc[t] = "post_resize_initialize"
  /\ object_space_end' = loc[t].new_memregion.end
  /\ IF post_resize_has_workers(t)
     THEN Goto(t, "post_resize_pretouch") /\ UNCHANGED loc
     ELSE /\ Goto(t, post_resize_return(t))
          /\ SetLocals(t, [loc[t] EXCEPT !.success = (loc[t].attempt # "shrink")])
  /\ UNCHANGED <<cfg, scan, committed_high_addr, object_space_top, start_array_covered,
                 card_table_covered, alloc_pretouch_next, ExpandHeap_lock>>

\* the pretouch pointer moved to the new end whatever AlwaysPreTouch is
post_resize_next_pretouch_always_end(new_end, loaded_next) == new_end

\* the pretouch pointer left as loaded, not limited by the new end
post_resize_next_pretouch_unclamped(new_end, loaded_next) ==
  IF cfg.AlwaysPreTouch THEN new_end ELSE loaded_next

\* lines 462-465: the value for the pretouch pointer
post_resize_next_pretouch(new_end, loaded_next) ==
  IF cfg.AlwaysPreTouch THEN new_end ELSE MIN2(new_end, loaded_next)

\* lines 458-465, with workers != NULL
PostResizePretouch(t) ==
  /\ pc[t] = "post_resize_pretouch"
  /\ SetLocals(t, [loc[t] EXCEPT !.next_pretouch =
       post_resize_next_pretouch(loc[t].new_memregion.end, alloc_pretouch_next)])
  /\ Goto(t, "post_resize_store")
  /\ UNCHANGED <<cfg, scan, generation, ExpandHeap_lock>>

\* line 466
PostResizeStore(t) ==
  /\ pc[t] = "post_resize_store"
  /\ alloc_pretouch_next' = loc[t].next_pretouch
  /\ Goto(t, post_resize_return(t))
  /\ SetLocals(t, [loc[t] EXCEPT !.success = (loc[t].attempt # "shrink")])
  /\ UNCHANGED <<cfg, scan, committed_high_addr, object_space_end, object_space_top,
                 start_array_covered, card_table_covered, ExpandHeap_lock>>

(***************************************************************************)
(* Leaving resize and expand_for_allocate_impl.                            *)
(***************************************************************************)
\* the MutexLocker goes out of scope and the call returns
Unlock(t) ==
  /\ pc[t] = "unlock"
  /\ ExpandHeap_lock' = NoThread
  /\ Return(t)
  /\ UNCHANGED <<cfg, scan, generation>>

DesiredFreeSpace == 0..(2 ^ WordBits - 1)

Next ==
  \E t \in Threads :
    \/ \E word_size \in AllocWords : Allocate(t, word_size)
    \/ PretouchLoadNext(t)
    \/ PretouchLoadEnd(t)
    \/ PretouchCmpxchgEnd(t)
    \/ PretouchCmpxchg(t)
    \/ PretouchTouch(t)
    \/ \E desired_free_space \in DesiredFreeSpace : Resize(t, desired_free_space)
    \/ ResizeCompare(t)
    \/ ExpandForAllocate(t)
    \/ ExpandByCommitted(t)
    \/ ExpandByFailed(t)
    \/ Shrink(t)
    \/ PostResizeStartArray(t)
    \/ PostResizeCardTable(t)
    \/ PostResizeInitialize(t)
    \/ PostResizePretouch(t)
    \/ PostResizeStore(t)
    \/ Unlock(t)

Spec == Init /\ [][Next]_vars

(***************************************************************************)
(* expand(bytes) followed at once by shrink of what it added, both under   *)
(* one hold of ExpandHeap_lock: the two calls composed directly, as a      *)
(* caller inside the generation can.                                       *)
(***************************************************************************)
generation_sizes ==
  [committed_size |-> committed_size, end |-> object_space_end,
   start_array_covered |-> start_array_covered,
   card_table_covered |-> card_table_covered]

\* the lock is taken and expand(bytes) called
ExpandThenShrink(t, bytes) ==
  /\ CanStart(t)
  /\ ExpandHeap_lock = NoThread
  /\ ExpandHeap_lock' = t
  /\ Goto(t, "expand_by")
  /\ SetLocals(t, expand([NoLocals EXCEPT !.op = "expand_shrink",
                                          !.size_before = committed_size,
                                          !.saved = generation_sizes],
                         bytes))
  /\ UNCHANGED <<cfg, scan, generation>>

\* expand returned true: shrink is called with the bytes it added
ExpandThenShrinkCallShrink(t) ==
  /\ pc[t] = "expand_shrink_shrink"
  /\ Goto(t, "shrink")
  /\ SetLocals(t, [loc[t] EXCEPT !.bytes = committed_size - loc[t].size_before])
  /\ UNCHANGED <<cfg, scan, generation, ExpandHeap_lock>>

NextExpandShrink ==
  \E t \in Threads :
    \/ \E bytes \in 1..cfg.reserved_size : ExpandThenShrink(t, bytes)
    \/ ExpandThenShrinkCallShrink(t)
    \/ ExpandByCommitted(t)
    \/ ExpandByFailed(t)
    \/ Shrink(t)
    \/ PostResizeStartArray(t)
    \/ PostResizeCardTable(t)
    \/ PostResizeInitialize(t)
    \/ PostResizePretouch(t)
    \/ PostResizeStore(t)
    \/ Unlock(t)

SpecExpandShrink == Init /\ [][NextExpandShrink]_vars

(***************************************************************************)
(* Block-wise object iteration: PSOldGen::num_iterable_blocks and          *)
(* PSOldGen::object_iterate_block, lines 166-196.  A scan pass runs at a   *)
(* safepoint over a space that holds contiguous objects from bottom to     *)
(* top; the start array knows where each object starts.                    *)
(***************************************************************************)
\* PSOldGen::IterateBlockSize, scaled down with the page size
IterateBlockSize == 2 * HeapWordSize

RECURSIVE words_before(_, _)
\* the words taken by the first k objects of the layout
words_before(layout, k) ==
  IF k = 0 THEN 0 ELSE words_before(layout, k - 1) + layout[k]

\* the address of the k-th object
object_addr(k) == ptr_add(bottom, words_before(objects, k - 1))

\* the addresses where an object starts
object_starts == { object_addr(k) : k \in 1..Len(objects) }

\* cast_to_oop(p)->size(), in words, for p the start of an object
oop_size(p) ==
  LET k == CHOOSE k \in 1..Len(objects) : object_addr(k) = p IN objects[k]

\* start_array()->object_starts_in_range(begin, end)
object_starts_in_range(begin, end) ==
  \E p \in object_starts : begin <= p /\ p < end

\* start_array()->object_start(addr): the start of the object addr lies in
object_start(addr) ==
  CHOOSE p \in object_starts :
    /\ p <= addr
    /\ \A q \in object_starts : q <= addr => q <= p

\* lines 166-168
num_iterable_blocks ==
  ((used_in_bytes + IterateBlockSize - 1) % SizeMod) \div IterateBlockSize

RECURSIVE do_objects(_, _)
\* lines 193-195: the objects given to cl->do_object, from p up to end
do_objects(p, end) ==
  IF p < end THEN <<p>> \o do_objects(ptr_add(p, oop_size(p)), end) ELSE <<>>

\* the block's walk started at the object reaching into it
object_iterate_block_from_object_start(block_index) ==
  LET block_word_size == IterateBlockSize \div HeapWordSize
      begin == ptr_add(bottom, block_index * block_word_size)
      end == MIN2(object_space_top, ptr_add(begin, block_word_size))
  IN IF ~object_starts_in_range(begin, end)
     THEN <<>>
     ELSE do_objects(object_start(begin), end)

\* lines 170-196: the objects object_iterate_block(cl, block_index) gives to
\* cl->do_object, in order
object_iterate_block(block_index) ==
  LET block_word_size == IterateBlockSize \div HeapWordSize
      begin == ptr_add(bottom, block_index * block_word_size)
      end == MIN2(object_space_top, ptr_add(begin, block_word_size))
  IN IF ~object_starts_in_range(begin, end)
     THEN <<>>
     ELSE LET start == object_start(begin)
          IN do_objects(IF start < begin THEN ptr_add(start, oop_size(start))
                                         ELSE start,
                        end)

\* the layouts of contiguous objects that fit in the given number of words
Layouts(max_words) ==
  { layout \in UNION { [1..n -> 1..MaxObjectWords] : n \in 0..MaxObjects } :
      words_before(layout, Len(layout)) <= max_words }

\* a generation as constructed, then populated up to top with objects
InitIterate ==
  /\ cfg \in Configurations
  /\ \E initial_size \in InitialSizes(cfg) :
       /\ committed_high_addr = cfg.low_boundary + initial_size
       /\ objects \in Layouts(initial_size \div HeapWordSize)
  /\ object_space_end = committed_high_addr
  /\ object_space_top =
       cfg.low_boundary + words_before(objects, Len(objects)) * HeapWordSize
  /\ start_array_covered = MemRegion(cfg.low_boundary, committed_high_addr)
  /\ card_table_covered = MemRegion(cfg.low_boundary, committed_high_addr)
  /\ alloc_pretouch_next = NULL
  /\ ExpandHeap_lock = NoThread
  /\ pc = [t \in Threads |-> "idle"]
  /\ loc = [t \in Threads |-> NoLocals]
  /\ iterated = <<>>

\* one worker of the pass takes a block not yet taken and iterates it
ObjectIterateBlock(block_index) ==
  /\ block_index \in 0..(num_iterable_blocks - 1)
  /\ block_index \notin DOMAIN iterated
  /\ iterated' = [i \in DOMAIN iterated \cup {block_index} |->
                    IF i = block_index THEN object_iterate_block(block_index)
                                       ELSE iterated[i]]
  /\ UNCHANGED <<cfg, generation, ExpandHeap_lock, pc, loc, objects>>

NextIterate ==
  \E block_index \in 0..(MaxUnits * GenAlignment) \div IterateBlockSize :
    ObjectIterateBlock(block_index)

SpecIterate == InitIterate /\ [][NextIterate]_vars

(***************************************************************************)
(* The allocation pretouch with 4K pages and four GC threads: a stride of  *)
(* 512 words and a limit of 2048 words (lines 65-75).  The generation is   *)
(* taken some way into a collection: part of it allocated, the pretouch    *)
(* pointer at a page boundary at or ahead of an earlier top, or still NULL.*)
(***************************************************************************)
\* the words of a 4K page
PretouchPageWords == 512

PretouchConfigurations ==
  { [word_bits |-> 16,
     alignment |-> PretouchPageWords * HeapWordSize,
     page_size |-> PretouchPageWords * HeapWordSize,
     ParallelGCThreads |-> 4,
     low_boundary |-> PretouchPageWords * HeapWordSize,
     reserved_size |-> MaxPretouchPages * PretouchPageWords * HeapWordSize,
     min_gen_size |-> PretouchPageWords * HeapWordSize,
     max_gen_size |-> MaxPretouchPages * PretouchPageWords * HeapWordSize,
     MinHeapDeltaBytes |-> HeapWordSize,
     UseNUMA |-> FALSE,
     AlwaysPreTouch |-> FALSE] }

\* the chunk sizes asked for, in words: small ones and one of more than a page
PretouchAllocWords == {64, 600}

\* the words already allocated when the run starts
PretouchTopWords == {0, 424}

InitPretouch ==
  /\ cfg \in PretouchConfigurations
  /\ committed_high_addr = cfg.low_boundary + cfg.reserved_size
  /\ object_space_end = committed_high_addr
  /\ \E top_words \in PretouchTopWords :
       object_space_top = cfg.low_boundary + top_words * HeapWordSize
  /\ start_array_covered = MemRegion(cfg.low_boundary, committed_high_addr)
  /\ card_table_covered = MemRegion(cfg.low_boundary, committed_high_addr)
  /\ \E page \in 0..MaxPretouchPages :
       alloc_pretouch_next \in {NULL, cfg.low_boundary + page * cfg.page_size}
  /\ ExpandHeap_lock = NoThread
  /\ pc = [t \in Threads |-> "idle"]
  /\ loc = [t \in Threads |-> NoLocals]
  /\ objects = <<>>
  /\ iterated = <<>>

\* an allocation that finds the space it asks for, followed by its pretouch
AllocateInSpace(t, word_size) ==
  /\ word_size <= pointer_delta(object_space_end, object_space_top)
  /\ Allocate(t, word_size)

NextPretouch ==
  \E t \in Threads :
    \/ \E word_size \in PretouchAllocWords : AllocateInSpace(t, word_size)
    \/ PretouchLoadNext(t)
    \/ PretouchLoadEnd(t)
    \/ PretouchCmpxchgEnd(t)
    \/ PretouchCmpxchg(t)
    \/ PretouchTouch(t)

SpecPretouch == InitPretouch /\ [][NextPretouch]_vars

(***************************************************************************)
(* shrink(bytes) called directly under ExpandHeap_lock with any number of  *)
(* bytes up to the committed size, as a caller inside the generation can.  *)
(***************************************************************************)
\* the lock is taken and shrink(bytes) called
ShrinkBytes(t, bytes) ==
  /\ CanStart(t)
  /\ bytes <= committed_size
  /\ ExpandHeap_lock = NoThread
  /\ ExpandHeap_lock' = t
  /\ Goto(t, "shrink")
  /\ SetLocals(t, [NoLocals EXCEPT !.op = "shrink",
                                   !.bytes = bytes,
                                   !.size_before = committed_size,
                                   !.saved = generation_sizes])
  /\ UNCHANGED <<cfg, scan, generation>>

NextShrink ==
  \E t \in Threads :
    \/ \E bytes \in 0..cfg.reserved_size : ShrinkBytes(t, bytes)
    \/ Shrink(t)
    \/ PostResizeStartArray(t)
    \/ PostResizeCardTable(t)
    \/ PostResizeInitialize(t)
    \/ PostResizePretouch(t)
    \/ PostResizeStore(t)
    \/ Unlock(t)

SpecShrink == Init /\ [][NextShrink]_vars

(***************************************************************************)
(* Properties.                                                             *)
(***************************************************************************)
\* t has changed the committed size and not yet published the new end
InPostResize(t) ==
  pc[t] \in {"post_resize", "post_resize_card_table", "post_resize_initialize"}

\* t is about to return from resize, the lock still held
ResizeReturning(t) == pc[t] = "unlock" /\ loc[t].op = "resize"

\* t is about to return from expand_for_allocate_impl, the lock still held
ExpandForAllocateReturning(t) ==
  pc[t] = "unlock" /\ loc[t].op = "expand_for_allocate"

\* C1: in every state, so after every resize of any sequence of resizes, the
\* committed size is at least min_gen_size, at most max_gen_size and a
\* multiple of the alignment, also when the least expansion or the alignment
\* of new_size was applied.
C1_CommittedSizeWithinBounds ==
  /\ min_gen_size <= committed_size
  /\ committed_size <= max_gen_size
  /\ is_aligned(committed_size, alignment)

\* a resize whose expand grew by the least expansion, past the new size asked for
C1_Witness ==
  \E t \in Threads :
    /\ ResizeReturning(t)
    /\ loc[t].attempt = "floor" /\ loc[t].success
    /\ committed_size > loc[t].new_size

\* C2 as stated: a resize that shrank, or whose expand returned true, leaves
\* the committed size equal to new_size.
C2_CommittedEqualsNewSize ==
  \A t \in Threads :
    ResizeReturning(t) /\ (loc[t].attempt = "shrink" \/ loc[t].success)
      => committed_size = loc[t].new_size

\* C2, amended: a shrinking resize leaves the committed size equal to
\* new_size; a growing one does so when the expand_by of the aligned
\* request is the attempt that succeeds; when the least expansion exceeds the
\* request and its commit succeeds the committed size is the old size plus
\* the least expansion, above new_size; when only expand_to_reserved succeeds
\* it is the reserved size; when every attempt fails it is unchanged.
C2_ResizeOutcome ==
  \A t \in Threads :
    ResizeReturning(t) =>
      /\ loc[t].attempt = "shrink" => committed_size = loc[t].new_size
      /\ loc[t].attempt = "aligned" => committed_size = loc[t].new_size
      /\ loc[t].attempt = "floor" =>
           /\ committed_size = loc[t].current_size + loc[t].aligned_expand_bytes
           /\ committed_size > loc[t].new_size
      /\ loc[t].attempt = "reserved" =>
           /\ committed_size = cfg.reserved_size
           /\ committed_size > loc[t].current_size
      /\ loc[t].attempt = "failed" => committed_size = loc[t].current_size
      /\ loc[t].success = (loc[t].attempt \in {"floor", "aligned", "reserved"})
      /\ object_space_end = committed_high_addr

\* a resize that grew to exactly the new size by the aligned request
C2_Witness ==
  \E t \in Threads :
    /\ ResizeReturning(t)
    /\ loc[t].attempt = "aligned" /\ loc[t].success
    /\ committed_size = loc[t].new_size
    /\ loc[t].new_size > loc[t].current_size

\* C3: whenever used + desired_free_space wraps, the new size resize goes on
\* with is the one max_gen_size gives: max_gen_size clamped and aligned.
C3_OverflowGivesMaxSize ==
  \A t \in Threads :
    pc[t] = "resize_compare" /\ loc[t].overflowed
      => loc[t].new_size =
           align_up(clamp(max_gen_size, min_gen_size, max_gen_size), alignment)

\* a resize whose sum wrapped
C3_Witness ==
  \E t \in Threads :
    /\ pc[t] = "resize_compare" /\ loc[t].overflowed
    /\ used_in_bytes > 0

\* C4: whenever no size change is between its commit or uncommit and its
\* publication of end, so after every completed expand_by and shrink, the
\* regions given to the start array and to the card table are both
\* [bottom, end).
C4_CoveredEqualsLiveRegion ==
  (\A t \in Threads : ~InPostResize(t))
    => /\ start_array_covered = MemRegion(bottom, object_space_end)
       /\ card_table_covered = MemRegion(bottom, object_space_end)

\* a completed expand_by and a completed shrink that moved end
C4_Witness ==
  \E t \in Threads :
    /\ pc[t] = "unlock"
    /\ loc[t].attempt \in {"floor", "aligned", "reserved", "shrink"}
    /\ object_space_end # bottom + loc[t].current_size
    /\ loc[t].op = "resize"

\* both side structures cover all of the published [bottom, end)
Covered ==
  /\ start_array_covered.start <= bottom
  /\ start_array_covered.end >= object_space_end
  /\ card_table_covered.start <= bottom
  /\ card_table_covered.end >= object_space_end

\* C5 as stated: in every state the published [bottom, end) lies inside both
\* covered regions.
C5_PublishedAlwaysCovered == Covered

\* t is shrinking and has lowered a covered region but not yet end
ShrinkNotPublished(t) ==
  /\ loc[t].attempt = "shrink"
  /\ pc[t] \in {"post_resize_card_table", "post_resize_initialize"}

\* C5, amended: the published [bottom, end) lies inside both covered regions
\* in every state except inside a shrink between its lowering of the covered
\* regions and its publication of the lowered end; a shrink is in that
\* window only on the VM thread with every worker between operations.  While
\* expanding, the covered regions grow before end is published.
C5_PublishedCoveredUnlessShrinking ==
  /\ (\A t \in Threads : ~ShrinkNotPublished(t)) => Covered
  /\ \A t \in Threads :
       ShrinkNotPublished(t) =>
         is_VM_thread(t) /\ \A w \in Workers : pc[w] = "idle"

\* a worker expanding, the covered regions already raised and end not yet,
\* while the other worker is inside an allocation's pretouch
C5_Witness ==
  \E t \in Workers, u \in Workers :
    /\ pc[t] = "post_resize_initialize"
    /\ card_table_covered.end > object_space_end
    /\ pc[u] = "pretouch_load_end"

\* C6 as stated: when expand_for_allocate_impl is about to return true and
\* release the lock, at least word_size words are free.
C6_ReturnsTrueWithSpace ==
  \A t \in Threads :
    ExpandForAllocateReturning(t) /\ loc[t].success
      => pointer_delta(object_space_end, object_space_top) >= loc[t].word_size

\* C6, amended: when expand_for_allocate_impl returns true, either its
\* recheck found word_size words free, or its expand raised the committed
\* size and end: by at least word_size words when the least expansion or the
\* aligned request succeeded, and to the reserved size, by whatever was left,
\* when only expand_to_reserved did.
C6_ReturnsTrueAfterGrowth ==
  \A t \in Threads :
    ExpandForAllocateReturning(t) /\ loc[t].success =>
      \/ loc[t].rechecked /\ loc[t].attempt = "none"
      \/ /\ loc[t].attempt \in {"floor", "aligned"}
         /\ committed_size - loc[t].size_before >= loc[t].word_size * HeapWordSize
         /\ object_space_end = committed_high_addr
      \/ /\ loc[t].attempt = "reserved"
         /\ committed_size = cfg.reserved_size
         /\ committed_size > loc[t].size_before
         /\ object_space_end = committed_high_addr

\* expand_for_allocate_impl returning true after the aligned request succeeded
C6_Witness ==
  \E t \in Threads :
    /\ ExpandForAllocateReturning(t) /\ loc[t].success
    /\ loc[t].attempt = "aligned"
    /\ pointer_delta(object_space_end, object_space_top) >= loc[t].word_size

\* C7: while only allocating threads run (pretouch calls, and expansions by
\* allocating threads raising end under them), no step lowers the pretouch
\* pointer, and the pointer is never above the current end.
C7_PretouchPointerMonotoneBelowEnd ==
  /\ [](pc[VMThread] = "idle" => alloc_pretouch_next <= object_space_end)
  /\ [][pc[VMThread] = "idle" /\ pc'[VMThread] = "idle"
          => alloc_pretouch_next' >= alloc_pretouch_next]_vars

\* a claim that succeeded although end was raised after the call loaded it,
\* while the other worker is between its own loads and its cmpxchg
C7_Witness ==
  \E t \in Workers, u \in Workers :
    /\ pc[t] = "pretouch_touch"
    /\ loc[t].alloc_end < object_space_end
    /\ pc[u] \in {"pretouch_load_end", "pretouch_cmpxchg"}

\* C8 as stated: bottom <= pretouch pointer <= end in every state.
C8_PointerWithinLiveRegion ==
  /\ bottom <= alloc_pretouch_next
  /\ alloc_pretouch_next <= object_space_end

\* t is shrinking and has published the lowered end but not yet stored the
\* pretouch pointer
ShrinkPointerNotStored(t) ==
  /\ loc[t].attempt = "shrink"
  /\ pc[t] \in {"post_resize_pretouch", "post_resize_store"}

\* C8, amended: the pretouch pointer is NULL, as constructed, until first
\* advanced, and from then on at least bottom; it is at most end in every
\* state except inside a shrink between the publication of the lowered end
\* and the store of the clamped pointer.
C8_PointerNullOrWithinLiveRegion ==
  /\ alloc_pretouch_next = NULL \/ bottom <= alloc_pretouch_next
  /\ (\A t \in Threads : ~ShrinkPointerNotStored(t))
       => alloc_pretouch_next <= object_space_end

\* a shrink completed with the pointer, advanced earlier, clamped to the end
C8_Witness ==
  \E t \in Threads :
    /\ ResizeReturning(t) /\ loc[t].attempt = "shrink"
    /\ alloc_pretouch_next = object_space_end
    /\ ~cfg.AlwaysPreTouch

\* C9 as stated: no step ever lowers the pretouch pointer.
C9_PointerNeverLowered ==
  [][alloc_pretouch_next' >= alloc_pretouch_next]_vars

\* C9, amended: the pretouch pointer is lowered only by a shrink on the VM
\* thread that has lowered end below it, and then to that end; no expansion
\* and no pretouch lowers it, and post_resize on another thread leaves it.
C9_PointerLoweredOnlyByShrink ==
  [][alloc_pretouch_next' < alloc_pretouch_next
       => \E t \in Threads :
            /\ is_VM_thread(t)
            /\ pc[t] = "post_resize_store" /\ loc[t].attempt = "shrink"
            /\ object_space_end < alloc_pretouch_next
            /\ alloc_pretouch_next' = object_space_end]_vars

\* a shrink about to store a pointer lower than the current one
C9_Witness ==
  \E t \in Threads :
    /\ pc[t] = "post_resize_store" /\ loc[t].attempt = "shrink"
    /\ loc[t].next_pretouch < alloc_pretouch_next

\* C10: when expand(bytes) returned true and shrink was then called, under
\* the same hold of the lock, with the bytes the expand added, the committed
\* size, the published end and both covered regions are what they were
\* before the expand.
C10_ExpandThenShrinkRestores ==
  \A t \in Threads :
    pc[t] = "unlock" /\ loc[t].op = "expand_shrink" /\ loc[t].attempt = "shrink"
      => generation_sizes = loc[t].saved

\* a round trip whose expand grew by the least expansion, more than asked
C10_Witness ==
  \E t \in Threads :
    /\ pc[t] = "unlock" /\ loc[t].op = "expand_shrink" /\ loc[t].attempt = "shrink"
    /\ loc[t].aligned_expand_bytes > loc[t].aligned_bytes
    /\ loc[t].bytes = loc[t].aligned_expand_bytes
    /\ generation_sizes = loc[t].saved


\* the block with the given index, as a range of addresses
BlockBegin(i) == bottom + i * IterateBlockSize
BlockEnd(i) == bottom + (i + 1) * IterateBlockSize

\* every block of the pass has been iterated
AllBlocksIterated == DOMAIN iterated = 0..(num_iterable_blocks - 1)

\* the number of times p was given to cl->do_object, over all blocks
Visits(p) ==
  Cardinality({ <<i, n>> \in (DOMAIN iterated) \X (1..MaxObjects) :
                  n <= Len(iterated[i]) /\ iterated[i][n] = p })

\* C11: once object_iterate_block has run for every block index below
\* num_iterable_blocks, every object of [bottom, top) was given to the
\* callback exactly once and nothing else was; each block iterated reported
\* exactly the objects that start in it, so an object crossing a block
\* boundary is reported by the block of its start only and a block in which
\* no object starts reports nothing.
C11_EveryObjectOncePerPass ==
  /\ \A i \in DOMAIN iterated :
       /\ { iterated[i][n] : n \in 1..Len(iterated[i]) } =
            { p \in object_starts : BlockBegin(i) <= p /\ p < BlockEnd(i) }
       /\ \A m, n \in 1..Len(iterated[i]) : m < n => iterated[i][m] < iterated[i][n]
  /\ AllBlocksIterated => \A p \in object_starts : Visits(p) = 1

\* a finished pass over a space where an object crosses a block boundary and
\* a block has no object starting in it
C11_Witness ==
  /\ AllBlocksIterated
  /\ \E k \in 1..Len(objects), i \in DOMAIN iterated :
       /\ object_addr(k) < BlockBegin(i)
       /\ ptr_add(object_addr(k), objects[k]) > BlockBegin(i)
       /\ Visits(object_addr(k)) = 1
  /\ \E i \in DOMAIN iterated : iterated[i] = <<>>


\* the end of the chunk t allocated
NewAlloc(t) == ptr_add(loc[t].alloc, loc[t].word_size)

\* t's call found its chunk behind the pointer it loaded, the pointer being
\* below the end it loaded and at most the limit ahead of the chunk's end
BehindWithinLimit(t) ==
  /\ loc[t].old_touch < loc[t].alloc_end
  /\ NewAlloc(t) <= loc[t].old_touch
  /\ pointer_delta(loc[t].old_touch, NewAlloc(t)) <= alloc_pretouch_limit_words

\* C12 as stated: a call for a chunk of 64 words that starts 600 words below
\* the pointer, and any call for a chunk behind the pointer within the limit,
\* returns without advancing the pointer.
C12_BehindCursorLeavesPointer ==
  \A t \in Threads :
    pc[t] = "pretouch_touch" =>
      /\ ~(loc[t].word_size = 64 /\ loc[t].old_touch = ptr_add(loc[t].alloc, 600))
      /\ ~BehindWithinLimit(t)

\* C12, amended: a call for a chunk behind the pointer (the pointer below
\* end) returns without a cmpxchg exactly when the pointer is more than the
\* limit ahead of the chunk's end; within the limit it goes on to the
\* cmpxchg from the pointer it loaded to that pointer plus one stride, or to
\* end when less than a stride is left, and when the pointer still has the
\* loaded value the cmpxchg advances it and the call touches the page.
C12_BehindCursorAdvancesWithinLimit ==
  /\ [](\A t \in Threads :
          /\ pc[t] \in {"pretouch_cmpxchg", "pretouch_touch"}
               /\ NewAlloc(t) <= loc[t].old_touch
               => /\ BehindWithinLimit(t)
                  /\ loc[t].touch = loc[t].old_touch
                  /\ loc[t].next_touch =
                       MIN2(loc[t].old_touch + alloc_pretouch_stride_words * HeapWordSize,
                            loc[t].alloc_end)
          /\ pc[t] = "pretouch_touch" => alloc_pretouch_next >= loc[t].next_touch)
  /\ [][\A t \in Threads :
          /\ pc[t] = "pretouch_load_end" /\ pc'[t] # "pretouch_load_end"
               /\ loc[t].touch < object_space_end
               /\ NewAlloc(t) <= loc[t].touch
               => /\ alloc_pretouch_next' = alloc_pretouch_next
                  /\ (pc'[t] = "pretouch_cmpxchg") =
                       (pointer_delta(loc[t].touch, NewAlloc(t))
                          <= alloc_pretouch_limit_words)
                  /\ pc'[t] \in {"pretouch_cmpxchg", "idle"}
          /\ pc[t] = "pretouch_cmpxchg" /\ pc'[t] # "pretouch_cmpxchg"
               /\ alloc_pretouch_next = loc[t].old_touch
               => /\ alloc_pretouch_next' = loc[t].next_touch
                  /\ pc'[t] = "pretouch_touch"]_vars

\* the call for 64 words starting 600 words below the pointer has advanced
\* the pointer by a stride of 512 words and is about to touch the page
C12_Witness ==
  \E t \in Threads :
    /\ pc[t] = "pretouch_touch"
    /\ alloc_pretouch_stride_words = 512 /\ alloc_pretouch_limit_words = 2048
    /\ loc[t].word_size = 64
    /\ loc[t].old_touch = ptr_add(loc[t].alloc, 600)
    /\ loc[t].old_touch < loc[t].alloc_end
    /\ alloc_pretouch_next = ptr_add(loc[t].old_touch, 512)


\* t has returned from post_resize after a commit, or is inside it
Committed(t) ==
  pc[t] \in {"post_resize", "post_resize_card_table", "post_resize_initialize",
             "post_resize_pretouch", "post_resize_store", "unlock",
             "expand_shrink_shrink"}

\* expand is returning what expand_to_reserved returned when it found
\* nothing uncommitted
ReturnedAtCeiling(t) ==
  /\ pc[t] = "unlock" /\ loc[t].attempt = "failed"
  /\ uncommitted_size = 0

\* C13 as stated: expand_to_reserved called with nothing uncommitted returns
\* true.
C13_SuccessAtCeiling ==
  \A t \in Threads : ReturnedAtCeiling(t) => loc[t].success

\* C13, amended: expand_to_reserved called with nothing uncommitted changes
\* nothing and returns false; with something uncommitted it calls expand_by
\* with exactly the uncommitted size, and when that commit succeeds the
\* committed size is the reserved size.
C13_ExpandToReserved ==
  /\ [](\A t \in Threads :
          /\ pc[t] = "expand_by" /\ loc[t].attempt = "reserved"
               => loc[t].expand_by_bytes = uncommitted_size /\ uncommitted_size > 0
          /\ Committed(t) /\ loc[t].attempt = "reserved"
               => committed_size = cfg.reserved_size
          /\ pc[t] = "unlock" /\ loc[t].attempt = "failed" => ~loc[t].success)
  /\ [][\A t \in Threads :
          pc[t] = "expand_by" /\ loc[t].attempt = "aligned"
            /\ loc'[t].attempt # "aligned"
            => /\ UNCHANGED generation
               /\ IF uncommitted_size = 0
                  THEN /\ pc'[t] = "unlock" /\ loc'[t].attempt = "failed"
                       /\ ~loc'[t].success
                  ELSE /\ pc'[t] = "expand_by" /\ loc'[t].attempt = "reserved"
                       /\ loc'[t].expand_by_bytes = uncommitted_size]_vars

\* expand returning false from expand_to_reserved with nothing uncommitted
C13_Witness ==
  \E t \in Threads : ReturnedAtCeiling(t) /\ ~loc[t].success


\* t is about to return from a direct shrink(bytes), the lock still held
ShrinkReturning(t) == pc[t] = "unlock" /\ loc[t].op = "shrink"

\* C14: shrink(bytes) lowers the committed size by exactly
\* align_down(bytes, alignment), whatever bytes is: nothing changes when that
\* is zero, and a committed size that was a multiple of the alignment stays
\* one.
C14_ShrinksByAlignedDown ==
  \A t \in Threads :
    ShrinkReturning(t) =>
      LET size == align_down(loc[t].bytes, alignment)
      IN /\ committed_size = loc[t].size_before - size
         /\ size = 0 => generation_sizes = loc[t].saved
         /\ is_aligned(loc[t].size_before, alignment)
              => is_aligned(committed_size, alignment)


\* C15: bottom <= top <= end in every state, and a shrink made by resize
\* never takes the committed high address below top.
C15_TopWithinLiveRegion ==
  /\ bottom <= object_space_top
  /\ object_space_top <= object_space_end
  /\ \A t \in Threads :
       loc[t].op = "resize" /\ loc[t].attempt = "shrink"
         => /\ object_space_top <= committed_high_addr
            /\ loc[t].new_size >= used_in_bytes

\* a resize that has shrunk a partly used generation to the aligned size
\* next above top
C15_Witness ==
  \E t \in Threads :
    /\ ResizeReturning(t) /\ loc[t].attempt = "shrink"
    /\ used_in_bytes > min_gen_size
    /\ object_space_end - object_space_top < alignment


\* C16 as stated: in every state the published end is at most the committed
\* high address.
C16_EndNeverAboveCommitted == object_space_end <= committed_high_addr

\* t is shrinking: it has uncommitted the top of the region and not yet
\* published the lowered end
ShrinkUncommitted(t) ==
  /\ loc[t].attempt = "shrink"
  /\ pc[t] \in {"post_resize", "post_resize_card_table", "post_resize_initialize"}

\* C16, amended: the published end is at most the committed high address in
\* every state, those between the steps of expand_by included, except inside
\* a shrink between its uncommit and its publication of the lowered end; a
\* shrink is in that window only on the VM thread with every worker between
\* operations, so no allocator reads end then.
C16_EndAboveCommittedOnlyInShrink ==
  /\ (\A t \in Threads : ~ShrinkUncommitted(t))
       => object_space_end <= committed_high_addr
  /\ \A t \in Threads :
       ShrinkUncommitted(t) =>
         /\ is_VM_thread(t) /\ \A w \in Workers : pc[w] = "idle"
         /\ object_space_end > committed_high_addr

\* a worker inside expand_by, the memory committed and end not yet raised,
\* while the other worker is about to read end
C16_Witness ==
  \E t \in Workers, u \in Workers :
    /\ pc[t] = "post_resize" /\ loc[t].attempt # "shrink"
    /\ object_space_end < committed_high_addr
    /\ pc[u] = "pretouch_load_end"


\* t is inside expand(bytes) or returning from it
InExpand(t) ==
  /\ loc[t].op \in {"resize", "expand_for_allocate"}
  /\ loc[t].attempt \in {"floor", "aligned", "reserved", "failed"}

\* C17: expand tries the least expansion only when it exceeds the aligned
\* request, then the aligned request, then expand_to_reserved; the first
\* attempt that commits ends the sequence and expand returns true; it
\* returns false only after the last attempt failed, and no failed attempt
\* changes the committed size, end, the covered regions or the pretouch
\* pointer.
C17_ExpandAttemptsInOrder ==
  /\ [](\A t \in Threads :
          InExpand(t) =>
            /\ loc[t].attempt = "floor"
                 => loc[t].aligned_expand_bytes > loc[t].aligned_bytes
            /\ pc[t] = "expand_by" =>
                 loc[t].expand_by_bytes =
                   CASE loc[t].attempt = "floor" -> loc[t].aligned_expand_bytes
                     [] loc[t].attempt = "aligned" -> loc[t].aligned_bytes
                     [] OTHER -> uncommitted_size
            /\ pc[t] = "unlock" =>
                 /\ loc[t].success = (loc[t].attempt # "failed")
                 /\ loc[t].attempt = "failed" =>
                      /\ committed_size = loc[t].size_before
                      /\ object_space_end = committed_high_addr
                      /\ start_array_covered = MemRegion(low_boundary, committed_high_addr)
                      /\ card_table_covered = MemRegion(low_boundary, committed_high_addr))
  /\ [][\A t \in Threads :
          /\ pc[t] \in {"resize_compare", "expand_for_allocate"} /\ pc'[t] = "expand_by"
               => loc'[t].attempt =
                    IF loc'[t].aligned_expand_bytes > loc'[t].aligned_bytes
                    THEN "floor" ELSE "aligned"
          /\ pc[t] = "expand_by" /\ loc'[t].attempt # loc[t].attempt
               => /\ UNCHANGED generation
                  /\ <<loc[t].attempt, loc'[t].attempt>> \in
                       {<<"floor", "aligned">>, <<"aligned", "reserved">>,
                        <<"aligned", "failed">>, <<"reserved", "failed">>}
                  /\ (loc'[t].attempt = "failed") = (pc'[t] = "unlock")
          /\ InExpand(t) /\ Committed(t) /\ pc'[t] # "idle"
               => loc'[t].attempt = loc[t].attempt]_vars

\* expand returning false after the least expansion, the aligned request and
\* expand_to_reserved have all failed
C17_Witness ==
  \E t \in Threads :
    /\ InExpand(t) /\ pc[t] = "unlock"
    /\ loc[t].attempt = "failed" /\ ~loc[t].success
    /\ loc[t].aligned_expand_bytes > loc[t].aligned_bytes
    /\ uncommitted_size > 0


\* t is inside expand, expand_by, expand_to_reserved, shrink or post_resize,
\* or about to release the lock after them
UnderLock(t) ==
  pc[t] \in {"expand_by", "shrink", "post_resize", "post_resize_card_table",
             "post_resize_initialize", "post_resize_pretouch",
             "post_resize_store", "unlock"}

\* C18: a thread inside expand, expand_by, expand_to_reserved, shrink or
\* post_resize owns ExpandHeap_lock, and at most one thread is inside them.
C18_LowerLevelOperationsUnderLock ==
  /\ \A t \in Threads : UnderLock(t) => ExpandHeap_lock = t
  /\ Cardinality({ t \in Threads : UnderLock(t) }) <= 1

\* a worker inside post_resize with the lock while the other worker waits
\* for the lock in expand_for_allocate_impl
C18_Witness ==
  \E t \in Workers, u \in Workers :
    /\ pc[t] = "post_resize_card_table" /\ ExpandHeap_lock = t
    /\ pc[u] = "expand_for_allocate"

\* C19: expand_for_allocate_impl, once it has the lock, returns true without
\* committing memory or changing end, the covered regions or the pretouch
\* pointer when word_size words are free, and only otherwise calls
\* expand(word_size * HeapWordSize).
C19_RecheckUnderLock ==
  /\ [](\A t \in Threads :
          ExpandForAllocateReturning(t) /\ loc[t].rechecked
            => loc[t].success /\ loc[t].attempt = "none")
  /\ [][\A t \in Threads :
          pc[t] = "expand_for_allocate" /\ pc'[t] # "expand_for_allocate"
            => /\ ExpandHeap_lock = NoThread /\ ExpandHeap_lock' = t
               /\ UNCHANGED generation
               /\ IF loc[t].word_size
                       <= pointer_delta(object_space_end, object_space_top)
                  THEN /\ pc'[t] = "unlock"
                       /\ loc'[t].success /\ loc'[t].rechecked
                  ELSE /\ pc'[t] = "expand_by"
                       /\ ~loc'[t].rechecked
                       /\ loc'[t].bytes = loc[t].word_size * HeapWordSize]_vars

\* expand_for_allocate_impl returning true from its recheck: the words that
\* were missing when the allocation failed are free, another thread having
\* expanded since
C19_Witness ==
  \E t \in Threads :
    /\ ExpandForAllocateReturning(t) /\ loc[t].rechecked /\ loc[t].success
    /\ loc[t].word_size <= pointer_delta(object_space_end, object_space_top)

\* C20: post_resize, after it has published the new end, stores the
\* pretouch pointer only on the VM thread: the new end with AlwaysPreTouch,
\* else the smaller of the pointer and the new end; on any other thread it
\* leaves the pointer as it is.
C20_PretouchPointerAfterResize ==
  /\ [](\A t \in Threads :
          pc[t] \in {"post_resize_pretouch", "post_resize_store"} => is_VM_thread(t))
  /\ [][\A t \in Threads :
          /\ pc[t] = "post_resize_initialize" /\ pc'[t] # "post_resize_initialize"
               => /\ object_space_end' = committed_high_addr
                  /\ alloc_pretouch_next' = alloc_pretouch_next
                  /\ (pc'[t] = "post_resize_pretouch") = is_VM_thread(t)
          /\ pc[t] = "post_resize_pretouch" /\ pc'[t] # "post_resize_pretouch"
               => /\ alloc_pretouch_next' = alloc_pretouch_next
                  /\ pc'[t] = "post_resize_store"
          /\ pc[t] = "post_resize_store" /\ pc'[t] # "post_resize_store"
               => alloc_pretouch_next' =
                    IF cfg.AlwaysPreTouch
                    THEN object_space_end
                    ELSE MIN2(alloc_pretouch_next, object_space_end)]_vars

\* a growing resize on the VM thread has left a pointer that was below the
\* old end where it was, AlwaysPreTouch being off
C20_Witness ==
  /\ ResizeReturning(VMThread)
  /\ loc[VMThread].attempt \in {"floor", "aligned", "reserved"}
  /\ ~cfg.AlwaysPreTouch
  /\ alloc_pretouch_next # NULL
  /\ alloc_pretouch_next < bottom + loc[VMThread].current_size


\* the stride in bytes, and the start of the last page below the end t loaded
StrideAlign == alloc_pretouch_stride_words * HeapWordSize
LastPage(t) == align_down(loc[t].alloc_end - HeapWordSize, StrideAlign)

\* C21: a call makes at most one cmpxchg of the pretouch pointer and does
\* not retry.  With the chunk's end past the loaded pointer and not in the
\* last page, the cmpxchg is from the loaded pointer to the chunk's end
\* aligned up plus one stride, or to end when less than a stride is left;
\* the call goes on to touch the page exactly when the cmpxchg succeeded, and
\* a failed cmpxchg leaves the pointer as it found it.  With the chunk's end
\* in the last page the one cmpxchg is to end and the call returns without
\* touching.
C21_SingleCmpxchg ==
  /\ [](\A t \in Threads :
          /\ pc[t] = "pretouch_cmpxchg" /\ NewAlloc(t) > loc[t].old_touch
               => /\ NewAlloc(t) <= LastPage(t)
                  /\ loc[t].touch = align_up(NewAlloc(t), StrideAlign)
                  /\ loc[t].next_touch =
                       MIN2(loc[t].touch + StrideAlign, loc[t].alloc_end)
          /\ pc[t] = "pretouch_cmpxchg_end"
               => /\ NewAlloc(t) > loc[t].old_touch
                  /\ NewAlloc(t) > LastPage(t)
                  /\ loc[t].next_touch = loc[t].alloc_end)
  /\ [][\A t \in Threads :
          /\ pc[t] \in {"pretouch_cmpxchg", "pretouch_cmpxchg_end"} /\ pc'[t] # pc[t]
               => /\ alloc_pretouch_next' =
                       IF alloc_pretouch_next = loc[t].old_touch
                       THEN loc[t].next_touch ELSE alloc_pretouch_next
                  /\ pc'[t] =
                       IF pc[t] = "pretouch_cmpxchg"
                            /\ alloc_pretouch_next = loc[t].old_touch
                       THEN "pretouch_touch" ELSE "idle"
          /\ pc[t] \in {"pretouch_during_allocation", "pretouch_load_end",
                        "pretouch_touch"} /\ pc'[t] # pc[t]
               => /\ UNCHANGED generation
                  /\ pc'[t] \in {"idle", "pretouch_cmpxchg", "pretouch_cmpxchg_end"}
                       \cup (IF pc[t] = "pretouch_during_allocation"
                             THEN {"pretouch_load_end"} ELSE {})
                  /\ pc[t] = "pretouch_touch" => pc'[t] = "idle"]_vars

\* a call whose chunk ended past the pointer has advanced the pointer and is
\* about to touch, while the other worker holds an old value of the pointer
\* for a cmpxchg that will fail
C21_Witness ==
  \E t \in Workers, u \in Workers :
    /\ pc[t] = "pretouch_touch"
    /\ NewAlloc(t) > loc[t].old_touch
    /\ alloc_pretouch_next = loc[t].next_touch
    /\ pc[u] = "pretouch_cmpxchg"
    /\ loc[u].old_touch # alloc_pretouch_next


\* C22: whenever a call is at the cmpxchg that claims a page, or past it,
\* the address to touch is a multiple of the stride and at most the start of
\* the last page below the end the call loaded (lines 239-240), whatever the
\* other calls and the resizes did meanwhile; the page a call touches lies
\* inside [bottom, end), which is committed.
C22_TouchAlignedBelowLastPage ==
  \A t \in Threads :
    pc[t] \in {"pretouch_cmpxchg", "pretouch_touch"} =>
      /\ is_aligned(loc[t].touch, StrideAlign)
      /\ loc[t].touch <= LastPage(t)
      /\ pc[t] = "pretouch_touch" =>
           /\ bottom <= loc[t].touch
           /\ loc[t].touch + StrideAlign <= object_space_end
           /\ object_space_end <= committed_high_addr

\* a call about to touch the last page below the end it loaded, the pointer
\* it started from having been behind its chunk, while the other worker has
\* committed more memory and is inside post_resize
C22_Witness ==
  \E t \in Workers, u \in Workers :
    /\ pc[t] = "pretouch_touch"
    /\ loc[t].touch = LastPage(t)
    /\ loc[t].touch > loc[t].old_touch
    /\ InPostResize(u)

=============================================================================
